---- MODULE Spec2Model ----
(***************************************************************************)
(* Multi-timeframe pullback strategy: the stateless signal function        *)
(* (strategy.py), the live polling loop (live_trader.py) and the replay    *)
(* adapter (backtest.py).                                                  *)
(*                                                                         *)
(* Prices are small integers.  An optional value (Python None) is a        *)
(* sequence of length 0 or 1; last_candle_ts = None is NoTs.  Timestamps   *)
(* are whole minutes, so ts.minute % 5 is (ts % 60) % 5.                   *)
(***************************************************************************)
EXTENDS Integers, Sequences, FiniteSets

VARIABLES
    sg,      \* one call of PullbackStrategy.generate_signal: arguments, result
    live,    \* the LiveTrader object, its two CSV files, the local `signal`
    venue,   \* the exchange account behind self.client
    loop,    \* position of LiveTrader.run: running or halted after shutdown,
             \* and how the fetch of its latest iteration ended
    bt       \* the PullbackBacktestAdapter object and the local `signal`

vars == <<sg, live, venue, loop, bt>>

-----------------------------------------------------------------------------
(* Bounds of the model *)

\* accepted LTF bars per run of the parity specification
MaxTicks == 11
\* accepted LTF bars per run of the live specification
MaxLiveTicks == 7
\* last minute the bar source delivers in the live specification
MaxTs == 7
\* longest LTF / HTF history handed to generate_signal on its own
MaxSigLtf == 3
MaxSigHtf == 2
\* accepted LTF bars per run, and last minute delivered, of the specification
\* of a poller that misses minutes
MaxDriftTicks == 10
MaxDriftTs == 11
\* accepted LTF bars per run of the specification of the first bars
EarlyTicks == 6
\* longest LTF / HTF history handed to generate_signal next to the drivers
AgreeLtf == 2
AgreeHtf == 1

-----------------------------------------------------------------------------
(* strategy.py *)

Candle(o, c) == [open |-> o, close |-> c]

\* is_green with the comparison slipped to >=
is_green_or_flat(c) == c.close >= c.open

is_green(c) == c.close > c.open

\* is_red with the comparison slipped to <=
is_red_or_flat(c) == c.close <= c.open

is_red(c) == c.close < c.open

\* a[-1] and a[-2] of a Python list
Last(s) == s[Len(s)]
Prev(s) == s[Len(s) - 1]

\* generate_signal with the HTF filter applied to the entry only
generate_signal_ungated_exit(ltf_candles, htf_candles, position_open) ==
    IF Len(ltf_candles) < 2 \/ Len(htf_candles) < 1 THEN "HOLD"
    ELSE LET current_ltf  == Last(ltf_candles)
             previous_ltf == Prev(ltf_candles)
             current_htf  == Last(htf_candles)
         IN  IF ~position_open /\ is_green(current_htf)
                /\ is_red(previous_ltf) /\ is_green(current_ltf)
             THEN "BUY"
             ELSE IF position_open /\ is_red(current_ltf)
             THEN "SELL"
             ELSE "HOLD"

\* generate_signal entering on the pullback bar itself
generate_signal_entry_on_pullback(ltf_candles, htf_candles, position_open) ==
    IF Len(ltf_candles) < 2 \/ Len(htf_candles) < 1 THEN "HOLD"
    ELSE LET current_ltf  == Last(ltf_candles)
             previous_ltf == Prev(ltf_candles)
             current_htf  == Last(htf_candles)
         IN  IF ~is_green(current_htf) THEN "HOLD"
             ELSE IF ~position_open /\ is_red(current_ltf)
                  THEN "BUY"
             ELSE IF position_open /\ is_red(current_ltf)
                  THEN "SELL"
             ELSE "HOLD"

\* generate_signal with the exit rule applied whatever the position
generate_signal_exit_any_position(ltf_candles, htf_candles, position_open) ==
    IF Len(ltf_candles) < 2 \/ Len(htf_candles) < 1 THEN "HOLD"
    ELSE LET current_ltf  == Last(ltf_candles)
             previous_ltf == Prev(ltf_candles)
             current_htf  == Last(htf_candles)
         IN  IF ~is_green(current_htf) THEN "HOLD"
             ELSE IF ~position_open /\ is_red(previous_ltf) /\ is_green(current_ltf)
                  THEN "BUY"
             ELSE IF is_red(current_ltf)
                  THEN "SELL"
             ELSE "HOLD"

\* generate_signal reading the first LTF bar as the previous one
generate_signal_first_bar(ltf_candles, htf_candles, position_open) ==
    IF Len(ltf_candles) < 2 \/ Len(htf_candles) < 1 THEN "HOLD"
    ELSE LET current_ltf  == Last(ltf_candles)
             previous_ltf == ltf_candles[1]
             current_htf  == Last(htf_candles)
         IN  IF ~is_green(current_htf) THEN "HOLD"
             ELSE IF ~position_open /\ is_red(previous_ltf) /\ is_green(current_ltf)
                  THEN "BUY"
             ELSE IF position_open /\ is_red(current_ltf)
                  THEN "SELL"
             ELSE "HOLD"

\* generate_signal taking an empty HTF history as an uptrend
generate_signal_empty_htf_passes(ltf_candles, htf_candles, position_open) ==
    IF Len(ltf_candles) < 2 THEN "HOLD"
    ELSE LET current_ltf  == Last(ltf_candles)
             previous_ltf == Prev(ltf_candles)
         IN  IF Len(htf_candles) >= 1 /\ ~is_green(Last(htf_candles)) THEN "HOLD"
             ELSE IF ~position_open /\ is_red(previous_ltf) /\ is_green(current_ltf)
                  THEN "BUY"
             ELSE IF position_open /\ is_red(current_ltf)
                  THEN "SELL"
             ELSE "HOLD"

generate_signal(ltf_candles, htf_candles, position_open) ==
    IF Len(ltf_candles) < 2 \/ Len(htf_candles) < 1 THEN "HOLD"
    ELSE LET current_ltf  == Last(ltf_candles)
             previous_ltf == Prev(ltf_candles)
             current_htf  == Last(htf_candles)
         IN  IF ~is_green(current_htf) THEN "HOLD"
             ELSE IF ~position_open /\ is_red(previous_ltf) /\ is_green(current_ltf)
                  THEN "BUY"
             ELSE IF position_open /\ is_red(current_ltf)
                  THEN "SELL"
             ELSE "HOLD"

-----------------------------------------------------------------------------
(* Shared shapes *)

NoTs == -1

NoSignal == "NONE"

OpenTrade(symbol, ts, price, candle_count, htf_count) ==
    [symbol       |-> symbol,
     direction    |-> "LONG",
     entry_time   |-> ts,
     entry_price  |-> price,
     entry_candle |-> candle_count,
     entry_htf    |-> htf_count]

\* dict.update with the four exit keys
ClosedTrade(trade, ts, price, candle_count, htf_count) ==
    [symbol       |-> trade.symbol,
     direction    |-> trade.direction,
     entry_time   |-> trade.entry_time,
     entry_price  |-> trade.entry_price,
     entry_candle |-> trade.entry_candle,
     entry_htf    |-> trade.entry_htf,
     exit_time    |-> ts,
     exit_price   |-> price,
     exit_candle  |-> candle_count,
     exit_htf     |-> htf_count]

-----------------------------------------------------------------------------
(* live_trader.py: the object and its collaborators *)

\* LiveTrader.__init__
LiveInit ==
    [symbol               |-> "BTCUSDT",
     ltf_candles          |-> <<>>,
     htf_candles          |-> <<>>,
     _htf_bucket          |-> <<>>,
     _htf_pending         |-> <<>>,
     _htf_available_next  |-> FALSE,
     _alignment_complete  |-> FALSE,
     last_candle_ts       |-> NoTs,
     current_trade        |-> <<>>,
     candle_count         |-> 0,
     htf_count            |-> 0,
     trade_file           |-> <<>>,
     candle_file          |-> <<>>,
     signal               |-> NoSignal]

\* The account at the exchange: btc is the BTC held, in lots of one market
\* buy; buys and sells count executed orders, sell_calls every
\* create_order(side="SELL") request, executed or rejected.
VenueInit == [btc |-> 0, buys |-> 0, sells |-> 0, sell_calls |-> 0]

\* get_btc_balance: a failed account query is printed and answered 0.0
get_btc_balance(v, balance_ok) == IF balance_ok THEN v.btc ELSE 0

\* place_market_buy: the order executes, or BinanceAPIException is re-raised
place_market_buy(v, buy_ok) ==
    IF buy_ok
    THEN [v |-> [v EXCEPT !.btc = @ + 1, !.buys = @ + 1], raised |-> FALSE]
    ELSE [v |-> v, raised |-> TRUE]

\* place_market_sell: returns None without an order when the balance reads
\* <= 0; otherwise sells the whole balance or re-raises BinanceAPIException
place_market_sell(v, balance_ok, sell_ok) ==
    LET qty == get_btc_balance(v, balance_ok)
    IN  IF qty <= 0
        THEN [v |-> v, raised |-> FALSE]
        ELSE IF sell_ok
        THEN [v |-> [v EXCEPT !.btc = 0, !.sells = @ + 1, !.sell_calls = @ + 1],
              raised |-> FALSE]
        ELSE [v |-> [v EXCEPT !.sell_calls = @ + 1], raised |-> TRUE]

-----------------------------------------------------------------------------
(* live_trader.py: the body of the polling loop, block by block.  A context *)
(* c = [t, v, flow] carries the trader, the venue and how the iteration     *)
(* goes on: "run", "continue" (sleep, next iteration) or "raise" (caught by *)
(* except Exception: print, sleep, next iteration).                         *)

\* LiveFetch remembering the timestamp it asked for when the fetch fails
LiveFetchFailureSeen(c, in) ==
    IF ~in.fetch_ok THEN [c EXCEPT !.t.last_candle_ts = in.ts, !.flow = "raise"]
    ELSE IF in.ts = c.t.last_candle_ts THEN [c EXCEPT !.flow = "continue"]
    ELSE [c EXCEPT !.t.last_candle_ts = in.ts]

\* LiveFetch without the duplicate check
LiveFetchNoDedup(c, in) ==
    IF ~in.fetch_ok THEN [c EXCEPT !.flow = "raise"]
    ELSE [c EXCEPT !.t.last_candle_ts = in.ts]

\* fetch_latest_closed_candle, the duplicate check, last_candle_ts = ts
LiveFetch(c, in) ==
    IF ~in.fetch_ok THEN [c EXCEPT !.flow = "raise"]
    ELSE IF in.ts = c.t.last_candle_ts THEN [c EXCEPT !.flow = "continue"]
    ELSE [c EXCEPT !.t.last_candle_ts = in.ts]

\* LiveAlign letting the boundary bar through without latching the flag
LiveAlignNoLatch(c, in) ==
    IF c.t._alignment_complete THEN c
    ELSE IF (in.ts % 60) % 5 = 0 THEN c
    ELSE [c EXCEPT !.flow = "continue"]

\* alignment phase
LiveAlign(c, in) ==
    IF c.t._alignment_complete THEN c
    ELSE IF (in.ts % 60) % 5 = 0 THEN [c EXCEPT !.t._alignment_complete = TRUE]
    ELSE [c EXCEPT !.flow = "continue"]

\* LivePromote without the count of the promoted bar
LivePromoteNoCount(t) ==
    IF t._htf_available_next /\ t._htf_pending # <<>>
    THEN [t EXCEPT !.htf_candles = Append(@, t._htf_pending[1]),
                   !._htf_pending = <<>>,
                   !._htf_available_next = FALSE]
    ELSE t

\* making the pending HTF available
LivePromote(t) ==
    IF t._htf_available_next /\ t._htf_pending # <<>>
    THEN [t EXCEPT !.htf_candles = Append(@, t._htf_pending[1]),
                   !.htf_count = @ + 1,
                   !._htf_pending = <<>>,
                   !._htf_available_next = FALSE]
    ELSE t

\* LiveStore writing the open of the bar in both price columns of the log
LiveStoreLogOpen(t, candle, ts) ==
    [t EXCEPT !.candle_count = @ + 1,
              !.ltf_candles = Append(@, candle),
              !.candle_file = Append(@, [timestamp |-> ts,
                                         open |-> candle.open,
                                         close |-> candle.open])]

\* count and store the LTF candle, write it to the candle log
LiveStore(t, candle, ts) ==
    [t EXCEPT !.candle_count = @ + 1,
              !.ltf_candles = Append(@, candle),
              !.candle_file = Append(@, [timestamp |-> ts,
                                         open |-> candle.open,
                                         close |-> candle.close])]

\* LiveAggregate keeping the five bars in the bucket
LiveAggregateKeep(t, candle) ==
    LET bucket == Append(t._htf_bucket, candle)
    IN  IF Len(bucket) = 5
        THEN [t EXCEPT !._htf_pending = <<Candle(bucket[1].open, Last(bucket).close)>>,
                       !._htf_available_next = TRUE,
                       !._htf_bucket = bucket]
        ELSE [t EXCEPT !._htf_bucket = bucket]

\* aggregate into HTF
LiveAggregate(t, candle) ==
    LET bucket == Append(t._htf_bucket, candle)
    IN  IF Len(bucket) = 5
        THEN [t EXCEPT !._htf_pending = <<Candle(bucket[1].open, Last(bucket).close)>>,
                       !._htf_available_next = TRUE,
                       !._htf_bucket = <<>>]
        ELSE [t EXCEPT !._htf_bucket = bucket]

\* minimum data check, then generate_signal
LiveSignal(c) ==
    IF Len(c.t.ltf_candles) < 2 \/ Len(c.t.htf_candles) < 1
    THEN [c EXCEPT !.flow = "continue"]
    ELSE [c EXCEPT !.t.signal = generate_signal(c.t.ltf_candles, c.t.htf_candles,
                                                c.t.current_trade # <<>>)]

\* the order call of the branch taken: place_market_buy or place_market_sell
LiveOrder(c, in) ==
    IF c.t.signal = "BUY" /\ c.t.current_trade = <<>>
    THEN LET r == place_market_buy(c.v, in.buy_ok)
         IN  [c EXCEPT !.v = r.v, !.flow = IF r.raised THEN "raise" ELSE "run"]
    ELSE IF c.t.signal = "SELL" /\ c.t.current_trade # <<>>
    THEN LET r == place_market_sell(c.v, in.balance_ok, in.sell_ok)
         IN  [c EXCEPT !.v = r.v, !.flow = IF r.raised THEN "raise" ELSE "run"]
    ELSE c

\* LiveTrack recording the open of the bar as the entry price
LiveTrackOpenPrice(t, candle, ts) ==
    LET price == candle.close
    IN  IF t.signal = "BUY" /\ t.current_trade = <<>>
        THEN [t EXCEPT !.current_trade =
                 <<OpenTrade(t.symbol, ts, candle.open, t.candle_count, t.htf_count)>>]
        ELSE IF t.signal = "SELL" /\ t.current_trade # <<>>
        THEN [t EXCEPT !.trade_file =
                 Append(@, ClosedTrade(t.current_trade[1], ts, price,
                                       t.candle_count, t.htf_count)),
                       !.current_trade = <<>>]
        ELSE t

\* what follows the order call: track the trade, or complete, log and reset it
LiveTrack(t, candle, ts) ==
    LET price == candle.close
    IN  IF t.signal = "BUY" /\ t.current_trade = <<>>
        THEN [t EXCEPT !.current_trade =
                 <<OpenTrade(t.symbol, ts, price, t.candle_count, t.htf_count)>>]
        ELSE IF t.signal = "SELL" /\ t.current_trade # <<>>
        THEN [t EXCEPT !.trade_file =
                 Append(@, ClosedTrade(t.current_trade[1], ts, price,
                                       t.candle_count, t.htf_count)),
                       !.current_trade = <<>>]
        ELSE t

\* LiveStage with the promotion block after the aggregation block
LiveStagePushFirst(i, c, in) ==
    IF c.flow # "run" THEN c
    ELSE CASE i = 1 -> LiveFetch(c, in)
           [] i = 2 -> LiveAlign(c, in)
           [] i = 3 -> [c EXCEPT !.t = LiveStore(c.t, in.candle, in.ts)]
           [] i = 4 -> [c EXCEPT !.t = LiveAggregate(c.t, in.candle)]
           [] i = 5 -> [c EXCEPT !.t = LivePromote(c.t)]
           [] i = 6 -> LiveSignal(c)
           [] i = 7 -> LiveOrder(c, in)
           [] i = 8 -> [c EXCEPT !.t = LiveTrack(c.t, in.candle, in.ts)]

\* The blocks of one iteration, in program order
NStages == 8

LiveStage(i, c, in) ==
    IF c.flow # "run" THEN c
    ELSE CASE i = 1 -> LiveFetch(c, in)
           [] i = 2 -> LiveAlign(c, in)
           [] i = 3 -> [c EXCEPT !.t = LivePromote(c.t)]
           [] i = 4 -> [c EXCEPT !.t = LiveStore(c.t, in.candle, in.ts)]
           [] i = 5 -> [c EXCEPT !.t = LiveAggregate(c.t, in.candle)]
           [] i = 6 -> LiveSignal(c)
           [] i = 7 -> LiveOrder(c, in)
           [] i = 8 -> [c EXCEPT !.t = LiveTrack(c.t, in.candle, in.ts)]

RECURSIVE LiveRun(_, _, _)
\* the first k blocks of an iteration started in context c
LiveRun(k, c, in) ==
    IF k = 0 THEN c ELSE LiveStage(k, LiveRun(k - 1, c, in), in)

\* LiveTrader.shutdown: close the open position if the tracker holds one;
\* a failure of the close is printed and dropped
shutdown(c, in) ==
    IF c.t.current_trade # <<>>
    THEN [c EXCEPT !.v = place_market_sell(c.v, in.sd_balance_ok, in.sd_sell_ok).v]
    ELSE c

-----------------------------------------------------------------------------
(* backtest.py *)

\* PullbackBacktestAdapter.init
BtInit ==
    [ltf_candles          |-> <<>>,
     htf_candles          |-> <<>>,
     _htf_bucket          |-> <<>>,
     _htf_pending         |-> <<>>,
     _htf_available_next  |-> FALSE,
     current_trade        |-> <<>>,
     trades_log           |-> <<>>,
     candle_count         |-> 0,
     htf_count            |-> 0,
     signal               |-> NoSignal]

\* BtPromote leaving the promoted bar in the marker
BtPromoteNoClear(b) ==
    IF b._htf_available_next /\ b._htf_pending # <<>>
    THEN [b EXCEPT !.htf_candles = Append(@, b._htf_pending[1]),
                   !.htf_count = @ + 1]
    ELSE b

\* make the pending HTF available
BtPromote(b) ==
    IF b._htf_available_next /\ b._htf_pending # <<>>
    THEN [b EXCEPT !.htf_candles = Append(@, b._htf_pending[1]),
                   !.htf_count = @ + 1,
                   !._htf_pending = <<>>,
                   !._htf_available_next = FALSE]
    ELSE b

\* store the new LTF candle
BtStore(b, candle) == [b EXCEPT !.ltf_candles = Append(@, candle)]

\* BtAggregate taking the open of the last bucket bar
BtAggregateLastOpen(b, candle) ==
    LET bucket == Append(b._htf_bucket, candle)
    IN  IF Len(bucket) = 5
        THEN [b EXCEPT !._htf_pending = <<Candle(Last(bucket).open, Last(bucket).close)>>,
                       !._htf_available_next = TRUE,
                       !._htf_bucket = <<>>]
        ELSE [b EXCEPT !._htf_bucket = bucket]

\* aggregate into HTF
BtAggregate(b, candle) ==
    LET bucket == Append(b._htf_bucket, candle)
    IN  IF Len(bucket) = 5
        THEN [b EXCEPT !._htf_pending = <<Candle(bucket[1].open, Last(bucket).close)>>,
                       !._htf_available_next = TRUE,
                       !._htf_bucket = <<>>]
        ELSE [b EXCEPT !._htf_bucket = bucket]

\* BtExecute opening a trade on every BUY
BtExecuteReopen(b, signal, price, timestamp) ==
    IF signal = "BUY"
    THEN [b EXCEPT !.current_trade =
             <<OpenTrade("BTCUSDT", timestamp, price, b.candle_count, b.htf_count)>>]
    ELSE IF signal = "SELL"
    THEN IF b.current_trade = <<>> THEN b
         ELSE [b EXCEPT !.trades_log =
                  Append(@, ClosedTrade(b.current_trade[1], timestamp, price,
                                        b.candle_count, b.htf_count)),
                        !.current_trade = <<>>]
    ELSE b

\* BtExecute logging the completed trade without resetting current_trade
BtExecuteNoReset(b, signal, price, timestamp) ==
    IF signal = "BUY"
    THEN IF b.current_trade # <<>> THEN b
         ELSE [b EXCEPT !.current_trade =
                  <<OpenTrade("BTCUSDT", timestamp, price, b.candle_count, b.htf_count)>>]
    ELSE IF signal = "SELL"
    THEN IF b.current_trade = <<>> THEN b
         ELSE [b EXCEPT !.trades_log =
                  Append(@, ClosedTrade(b.current_trade[1], timestamp, price,
                                        b.candle_count, b.htf_count))]
    ELSE b

\* execute orders: self.buy / self.sell of the replay framework do not fail
BtExecute(b, signal, price, timestamp) ==
    IF signal = "BUY"
    THEN IF b.current_trade # <<>> THEN b
         ELSE [b EXCEPT !.current_trade =
                  <<OpenTrade("BTCUSDT", timestamp, price, b.candle_count, b.htf_count)>>]
    ELSE IF signal = "SELL"
    THEN IF b.current_trade = <<>> THEN b
         ELSE [b EXCEPT !.trades_log =
                  Append(@, ClosedTrade(b.current_trade[1], timestamp, price,
                                        b.candle_count, b.htf_count)),
                        !.current_trade = <<>>]
    ELSE b

\* next with the bucket filled before the pending bar is promoted
nextPushFirst(b, candle, timestamp) ==
    LET b1 == [b EXCEPT !.candle_count = @ + 1, !.signal = NoSignal]
        b2 == BtPromote(BtAggregate(BtStore(b1, candle), candle))
    IN  IF Len(b2.ltf_candles) < 2 \/ Len(b2.htf_candles) < 1 THEN b2
        ELSE LET signal == generate_signal(b2.ltf_candles, b2.htf_candles,
                                           b2.current_trade # <<>>)
             IN  BtExecute([b2 EXCEPT !.signal = signal], signal, candle.close, timestamp)

\* PullbackBacktestAdapter.next on the bar (candle, timestamp); `signal` is
\* the local of this call, NoSignal when it returns before computing one
next(b, candle, timestamp) ==
    LET b1 == [b EXCEPT !.candle_count = @ + 1, !.signal = NoSignal]
        b2 == BtAggregate(BtStore(BtPromote(b1), candle), candle)
    IN  IF Len(b2.ltf_candles) < 2 \/ Len(b2.htf_candles) < 1 THEN b2
        ELSE LET signal == generate_signal(b2.ltf_candles, b2.htf_candles,
                                           b2.current_trade # <<>>)
             IN  BtExecute([b2 EXCEPT !.signal = signal], signal, candle.close, timestamp)

-----------------------------------------------------------------------------
(* Inputs *)

\* bars of the parity specification: green, red from above, red to below
Bars == {Candle(1, 2), Candle(3, 2), Candle(2, 1)}

\* bars of the live specification
LiveBars == {Candle(1, 2), Candle(3, 2)}

\* arguments of generate_signal on its own: green, red and the two flat bars
SigBars == {Candle(o, c) : o \in 1..2, c \in 1..2}

SeqsUpTo(S, n) == UNION {[1..k -> S] : k \in 0..n}

SgIdle == [ltf_candles |-> <<>>, htf_candles |-> <<>>, position_open |-> FALSE,
           result |-> NoSignal]

LoopInit == [state |-> "running", venue_at_interrupt |-> VenueInit, polled |-> "none"]

\* what fetch_latest_closed_candle delivered to the iteration: nothing (it
\* raised), the timestamp already seen, or a new one
FetchOutcome(t, fetch_ok, ts) ==
    IF ~fetch_ok THEN "failed"
    ELSE IF ts = t.last_candle_ts THEN "duplicate"
    ELSE "new"

\* one iteration's environment: what the bar source and the venue answer
Input(fetch_ok, candle, ts, buy_ok, balance_ok, sell_ok) ==
    [fetch_ok |-> fetch_ok, candle |-> candle, ts |-> ts,
     buy_ok |-> buy_ok, balance_ok |-> balance_ok, sell_ok |-> sell_ok]

\* timestamps the bar source may deliver next: non-decreasing, a re-poll
\* repeats the last one, a missed poll skips one minute
NextTs(t) ==
    IF t.last_candle_ts = NoTs THEN 0..MaxTs
    ELSE {ts \in t.last_candle_ts..(t.last_candle_ts + 2) : ts <= MaxTs}

Ctx(t, v) == [t |-> t, v |-> v, flow |-> "run"]

-----------------------------------------------------------------------------
(* Parity specification: the same bar sequence, minute by minute from an    *)
(* aligned minute, through one whole iteration of LiveTrader.run and one    *)
(* call of PullbackBacktestAdapter.next; every collaborator call succeeds.  *)

Init ==
    /\ sg = SgIdle
    /\ live = LiveInit
    /\ venue = VenueInit
    /\ loop = LoopInit
    /\ bt = BtInit

Tick ==
    \E candle \in Bars :
        /\ live.candle_count < MaxTicks
        /\ LET ts == IF live.last_candle_ts = NoTs THEN 0 ELSE live.last_candle_ts + 1
               c  == LiveRun(NStages, Ctx(live, venue),
                             Input(TRUE, candle, ts, TRUE, TRUE, TRUE))
           IN  /\ live' = c.t
               /\ venue' = c.v
               /\ bt' = next(bt, candle, ts)
               /\ loop' = [loop EXCEPT !.polled = FetchOutcome(live, TRUE, ts)]
        /\ UNCHANGED sg

Next == Tick

Spec == Init /\ [][Next]_vars

-----------------------------------------------------------------------------
(* Live specification: the polling loop against a bar source that repeats   *)
(* and skips minutes and collaborators that fail, an interrupt at any block *)
(* boundary, and the replay adapter reading the candle log row by row.      *)

Poll ==
    \E candle \in LiveBars, ts \in NextTs(live), fetch_ok, buy_ok, balance_ok, sell_ok \in BOOLEAN :
        /\ loop.state = "running"
        /\ bt.candle_count = Len(live.candle_file)
        /\ live.candle_count < MaxLiveTicks
        /\ LET c == LiveRun(NStages, Ctx(live, venue),
                            Input(fetch_ok, candle, ts, buy_ok, balance_ok, sell_ok))
           IN  /\ live' = c.t
               /\ venue' = c.v
               /\ loop' = [loop EXCEPT !.polled = FetchOutcome(live, fetch_ok, ts)]
        /\ UNCHANGED <<sg, bt>>

\* KeyboardInterrupt after the first k blocks of an iteration.  The calls
\* made before the interrupt succeed here: a call that failed before the
\* interrupt either changed nothing (the state of a smaller k) or raised into
\* the except handler (the state of Poll followed by k = 0).
Interrupt ==
    \E k \in 0..(NStages - 1), candle \in LiveBars, ts \in NextTs(live) :
        /\ loop.state = "running"
        /\ bt.candle_count = Len(live.candle_file)
        /\ k > 0 => live.candle_count < MaxLiveTicks
        /\ LET c == LiveRun(k, Ctx(live, venue),
                            Input(TRUE, candle, ts, TRUE, TRUE, TRUE))
           IN  /\ live' = c.t
               /\ venue' = c.v
               /\ loop' = [state |-> "interrupted", venue_at_interrupt |-> c.v,
                            polled |-> "none"]
        /\ UNCHANGED <<sg, bt>>

\* except KeyboardInterrupt: self.shutdown(); break
Shutdown ==
    \E sd_balance_ok, sd_sell_ok \in BOOLEAN :
        /\ loop.state = "interrupted"
        /\ LET c == shutdown(Ctx(live, venue),
                             [sd_balance_ok |-> sd_balance_ok, sd_sell_ok |-> sd_sell_ok])
           IN  /\ live' = c.t
               /\ venue' = c.v
        /\ loop' = [loop EXCEPT !.state = "halted"]
        /\ UNCHANGED <<sg, bt>>

\* backtest.py reads the next row of live_candles.csv into next()
Replay ==
    /\ bt.candle_count < Len(live.candle_file)
    /\ LET row == live.candle_file[bt.candle_count + 1]
       IN  bt' = next(bt, Candle(row.open, row.close), row.timestamp)
    /\ UNCHANGED <<sg, live, venue, loop>>

NextLive == Poll \/ Interrupt \/ Shutdown \/ Replay

SpecLive == Init /\ [][NextLive]_vars

-----------------------------------------------------------------------------
(* Signal specification: generate_signal applied to arbitrary arguments *)

InitSignal ==
    /\ sg \in [ltf_candles : SeqsUpTo(SigBars, MaxSigLtf),
               htf_candles : SeqsUpTo(SigBars, MaxSigHtf),
               position_open : BOOLEAN,
               result : {NoSignal}]
    /\ live = LiveInit
    /\ venue = VenueInit
    /\ loop = LoopInit
    /\ bt = BtInit

Evaluate ==
    /\ sg.result = NoSignal
    /\ sg' = [sg EXCEPT !.result =
                  generate_signal(sg.ltf_candles, sg.htf_candles, sg.position_open)]
    /\ UNCHANGED <<live, venue, loop, bt>>

NextSignal == Evaluate

SpecSignal == InitSignal /\ [][NextSignal]_vars

(* The first bars: generate_signal on arguments below its minimum, and the *)
(* two drivers up to the bar after the first aggregation window.           *)

\* arguments with fewer than 2 LTF bars or no HTF bar
InitThreshold ==
    /\ sg \in {a \in [ltf_candles : SeqsUpTo(LiveBars, MaxSigLtf),
                       htf_candles : SeqsUpTo(LiveBars, MaxSigHtf),
                       position_open : BOOLEAN,
                       result : {NoSignal}] :
                  Len(a.ltf_candles) < 2 \/ Len(a.htf_candles) < 1}
    /\ live = LiveInit
    /\ venue = VenueInit
    /\ loop = LoopInit
    /\ bt = BtInit

\* one iteration of the live loop on the bar of the next minute, or on the
\* bar already seen, followed by the replay of the row it logged, if any
EarlyTick ==
    \E candle \in LiveBars, again, fetch_ok \in BOOLEAN :
        /\ live.candle_count < EarlyTicks
        /\ LET ts == IF live.last_candle_ts = NoTs THEN 0
                     ELSE IF again THEN live.last_candle_ts
                     ELSE live.last_candle_ts + 1
               c  == LiveRun(NStages, Ctx(live, venue),
                             Input(fetch_ok, candle, ts, TRUE, TRUE, TRUE))
           IN  /\ live' = c.t
               /\ venue' = c.v
               /\ loop' = [loop EXCEPT !.polled = FetchOutcome(live, fetch_ok, ts)]
               /\ bt' = IF Len(c.t.candle_file) > Len(live.candle_file)
                        THEN next(bt, candle, ts)
                        ELSE bt
        /\ UNCHANGED sg

NextThreshold == Evaluate \/ EarlyTick

SpecThreshold == InitThreshold /\ [][NextThreshold]_vars

(* generate_signal on arguments of every length and position flag, and    *)
(* the two drivers up to their first decisions.                            *)

InitAgree ==
    /\ sg \in [ltf_candles : SeqsUpTo(LiveBars, AgreeLtf),
               htf_candles : SeqsUpTo(LiveBars, AgreeHtf),
               position_open : BOOLEAN,
               result : {NoSignal}]
    /\ live = LiveInit
    /\ venue = VenueInit
    /\ loop = LoopInit
    /\ bt = BtInit

NextAgree == Evaluate \/ EarlyTick

SpecAgree == InitAgree /\ [][NextAgree]_vars

(* The order blocks of the two drivers on their own: the branch on         *)
(* (signal, current_trade) of live_trader.py:272-320 and backtest.py:105-135 *)
(* applied to every signal in every position.                              *)

\* the open-trade record of a position entered on bar 6
HeldTrade == OpenTrade("BTCUSDT", 5, 2, 6, 1)

\* the values of current_trade: FLAT and OPEN
Positions == {<<>>, <<HeldTrade>>}

\* the values of Signal
Signals == {"BUY", "SELL", "HOLD"}

InitApply ==
    /\ sg = SgIdle
    /\ loop = LoopInit
    /\ \E signal \in Signals, current_trade \in Positions, n \in 6..7 :
          /\ live = [LiveInit EXCEPT !.signal = signal,
                                     !.current_trade = current_trade,
                                     !._alignment_complete = TRUE,
                                     !.candle_count = n,
                                     !.htf_count = 1]
          /\ venue = IF current_trade = <<>> THEN VenueInit
                     ELSE [VenueInit EXCEPT !.btc = 1, !.buys = 1]
    /\ \E signal \in Signals, current_trade \in Positions, n \in 6..7 :
          bt = [BtInit EXCEPT !.signal = signal,
                              !.current_trade = current_trade,
                              !.candle_count = n,
                              !.htf_count = 1]

\* the order block of each driver, once, on the bar (candle, ts)
Apply ==
    \E candle \in LiveBars, ts \in 6..7, buy_ok, balance_ok, sell_ok \in BOOLEAN :
        /\ loop.polled = "none"
        /\ LET in == Input(TRUE, candle, ts, buy_ok, balance_ok, sell_ok)
               c  == LiveStage(8, LiveStage(7, Ctx(live, venue), in), in)
           IN  /\ live' = c.t
               /\ venue' = c.v
        /\ bt' = BtExecute(bt, bt.signal, candle.close, ts)
        /\ loop' = [loop EXCEPT !.polled = "new"]
        /\ UNCHANGED sg

NextApply == Apply

SpecApply == InitApply /\ [][NextApply]_vars

(* The polling loop on its own over two aggregation windows: the loop      *)
(* sleeps 30 s between polls of a 60 s bar, plus 30 s after every failure, *)
(* so consecutive failed fetches make it miss a minute.                    *)

\* the bar of this specification: a green one
DriftBars == {Candle(1, 2)}

\* timestamps the bar source may deliver next: any start, then the same
\* minute again, the next one, or the one after a missed minute
DriftTs(t) ==
    IF t.last_candle_ts = NoTs THEN 0..MaxDriftTs
    ELSE {ts \in t.last_candle_ts..(t.last_candle_ts + 2) : ts <= MaxDriftTs}

\* one iteration of the loop
DriftPoll ==
    \E candle \in DriftBars, ts \in DriftTs(live), fetch_ok \in BOOLEAN :
        /\ live.candle_count < MaxDriftTicks
        /\ LET c == LiveRun(NStages, Ctx(live, venue),
                            Input(fetch_ok, candle, ts, TRUE, TRUE, TRUE))
           IN  /\ live' = c.t
               /\ venue' = c.v
               /\ loop' = [loop EXCEPT !.polled = FetchOutcome(live, fetch_ok, ts)]
        /\ UNCHANGED <<sg, bt>>

NextDrift == DriftPoll

SpecDrift == Init /\ [][NextDrift]_vars

-----------------------------------------------------------------------------
(* Claims *)

\* The two drivers, as the fields the claims about both of them read
Drivers == <<live, bt>>

\* C1 (parity): fed the same bars tick by tick, LiveTrader.run and
\* PullbackBacktestAdapter.next compute the same signal at every tick and
\* hold the same list of completed trade records.
Parity ==
    /\ live.signal = bt.signal
    /\ live.trade_file = bt.trades_log

\* both drivers have just completed the same trade
ParityWitness ==
    /\ live.signal = "SELL"
    /\ bt.signal = "SELL"
    /\ Len(live.trade_file) >= 1
    /\ Len(bt.trades_log) >= 1
    /\ Last(live.trade_file).exit_candle = live.candle_count

\* the n-th synthesized HTF bar (n from 1) as the LTF history determines it
HtfOf(ltf, n) == Candle(ltf[5 * (n - 1) + 1].open, ltf[5 * n].close)

\* C2 (delay): after the tick numbered i from 0 (candle_count = i + 1) the
\* visible HTF history holds exactly the synthesized bars n (from 0) with
\* 5n + 5 <= i; the bar completed on tick 5n + 4 is held pending on that tick
\* and not visible, so promotion precedes the push within a tick.
DelayCorrect ==
    \A i \in 1..2 :
        LET d == Drivers[i]
            ticks == Len(d.ltf_candles)
        IN  /\ ticks >= 1 =>
                 /\ Len(d.htf_candles) = (ticks - 1) \div 5
                 /\ \A n \in 1..Len(d.htf_candles) :
                        d.htf_candles[n] = HtfOf(d.ltf_candles, n)
            /\ (ticks >= 1 /\ ticks % 5 = 0) =>
                 /\ d._htf_pending = <<HtfOf(d.ltf_candles, ticks \div 5)>>
                 /\ Len(d.htf_candles) = (ticks \div 5) - 1

\* tick 10 (0-based): the second HTF bar has just become visible in both
DelayWitness ==
    /\ Len(live.ltf_candles) = 11
    /\ Len(live.htf_candles) = 2
    /\ Len(bt.htf_candles) = 2
    /\ live.htf_candles[2] # live.htf_candles[1]

\* C3 (bucket): the synthesized HTF bars (the visible ones, then the pending
\* one) number one per five accepted bars, and the n-th (from 0) opens at the
\* open of accepted bar 5n and closes at the close of accepted bar 5n + 4.
BucketCorrect ==
    \A i \in 1..2 :
        LET d == Drivers[i]
            synth == d.htf_candles \o d._htf_pending
        IN  /\ Len(synth) = Len(d.ltf_candles) \div 5
            /\ \A n \in 1..Len(synth) :
                   /\ synth[n].open = d.ltf_candles[5 * (n - 1) + 1].open
                   /\ synth[n].close = d.ltf_candles[5 * n].close

\* a second HTF bar synthesized from bars whose opens and closes all differ
BucketWitness ==
    /\ Len(bt.ltf_candles) = 10
    /\ bt._htf_pending # <<>>
    /\ bt.ltf_candles[6].open # bt.ltf_candles[10].open
    /\ bt.ltf_candles[6].close # bt.ltf_candles[10].close
    /\ bt._htf_pending[1] = Candle(bt.ltf_candles[6].open, bt.ltf_candles[10].close)

\* C4 (gate coupling): generate_signal returns HOLD whenever the latest
\* visible HTF bar has close <= open, for every LTF history and both values
\* of position_open.
GateCoupling ==
    (/\ sg.result # NoSignal
     /\ Len(sg.htf_candles) >= 1
     /\ Last(sg.htf_candles).close <= Last(sg.htf_candles).open)
    => sg.result = "HOLD"

\* an open position, a bearish last LTF bar, a flat last HTF bar: HOLD
GateWitness ==
    /\ sg.result = "HOLD"
    /\ sg.position_open
    /\ Len(sg.ltf_candles) >= 2
    /\ Last(sg.ltf_candles).close < Last(sg.ltf_candles).open
    /\ Len(sg.htf_candles) >= 1
    /\ Last(sg.htf_candles).close = Last(sg.htf_candles).open

\* generate_signal has run on at least 2 LTF bars under a bullish last HTF bar
Gated ==
    /\ sg.result # NoSignal
    /\ Len(sg.ltf_candles) >= 2
    /\ Len(sg.htf_candles) >= 1
    /\ Last(sg.htf_candles).close > Last(sg.htf_candles).open

\* C5 (entry rule): flat, at least 2 LTF bars, bullish last HTF bar: BUY iff
\* the second-to-last LTF bar has close < open and the last has close > open,
\* HOLD otherwise.
EntryRule ==
    (Gated /\ ~sg.position_open) =>
        IF /\ Prev(sg.ltf_candles).close < Prev(sg.ltf_candles).open
           /\ Last(sg.ltf_candles).close > Last(sg.ltf_candles).open
        THEN sg.result = "BUY"
        ELSE sg.result = "HOLD"

\* a BUY on a history of three bars
EntryWitness ==
    /\ Gated
    /\ ~sg.position_open
    /\ sg.result = "BUY"
    /\ Len(sg.ltf_candles) = 3

\* C6 (exit rule): position open, at least 2 LTF bars, bullish last HTF bar:
\* SELL iff the last LTF bar has close < open, HOLD otherwise.
ExitRule ==
    (Gated /\ sg.position_open) =>
        IF Last(sg.ltf_candles).close < Last(sg.ltf_candles).open
        THEN sg.result = "SELL"
        ELSE sg.result = "HOLD"

\* a SELL on a bearish last bar after a bullish one
ExitWitness ==
    /\ Gated
    /\ sg.position_open
    /\ sg.result = "SELL"
    /\ Prev(sg.ltf_candles).close > Prev(sg.ltf_candles).open

-----------------------------------------------------------------------------
(* Steps of the drivers, for the claims about a tick *)

\* a whole iteration of run accepted a bar and evaluated the signal on it
LiveTickSignal(signal) ==
    /\ loop'.state = "running"
    /\ live'.candle_count = live.candle_count + 1
    /\ Len(live'.ltf_candles) >= 2
    /\ Len(live'.htf_candles) >= 1
    /\ live'.signal = signal

\* a call of next evaluated the signal
BtTickSignal(signal) ==
    /\ bt'.candle_count = bt.candle_count + 1
    /\ bt'.signal = signal

\* at the end of the step d2 holds an open-trade record of this tick
OpenedAtTick(d2) ==
    /\ Len(d2.current_trade) = 1
    /\ d2.current_trade[1].entry_candle = d2.candle_count
    /\ d2.current_trade[1].entry_candle = Len(d2.ltf_candles)
    /\ d2.current_trade[1].entry_htf = Len(d2.htf_candles)
    /\ d2.current_trade[1].entry_price = Last(d2.ltf_candles).close

\* the completed record of the trade `trade` closed on the last tick of d2
ClosedAtTick(trade, d2, ts) ==
    ClosedTrade(trade, ts, Last(d2.ltf_candles).close,
                Len(d2.ltf_candles), Len(d2.htf_candles))

\* the step placed a buy order that executed
BuyExecuted == venue'.buys = venue.buys + 1

\* the step sent a sell order that the venue rejected
SellRejected ==
    /\ venue'.sell_calls = venue.sell_calls + 1
    /\ venue'.sells = venue.sells

\* the replay driver opens on BUY while FLAT
BtBuyOpens ==
    (BtTickSignal("BUY") /\ bt.current_trade = <<>>) => OpenedAtTick(bt')

\* C7 as claimed: in both drivers a BUY signal while FLAT leaves the position
\* OPEN at the end of the tick, with entry_candle the tick counter, entry_htf
\* the number of visible HTF bars and entry_price the close of the bar.
BuyOpensAlways ==
    [][/\ (LiveTickSignal("BUY") /\ live.current_trade = <<>>) => OpenedAtTick(live')
       /\ BtBuyOpens]_vars

\* C7 as amended: the same, in the live driver provided place_market_buy
\* returns an executed order; when it raises, the position stays FLAT, no
\* open-trade record is created and the venue holds nothing more.
BuyOpens ==
    [][/\ (LiveTickSignal("BUY") /\ live.current_trade = <<>>) =>
             IF BuyExecuted
             THEN OpenedAtTick(live')
             ELSE live'.current_trade = <<>> /\ venue' = venue
       /\ BtBuyOpens]_vars

\* the live driver has just opened a position on an executed buy order
BuyOpensWitness ==
    /\ loop.state = "running"
    /\ live.signal = "BUY"
    /\ Len(live.current_trade) = 1
    /\ live.current_trade[1].entry_candle = live.candle_count
    /\ venue.buys = 1
    /\ venue.btc = 1

\* the trade sink of a driver grows by one record exactly on OPEN -> FLAT
SinkStep(cur, cur2, sink, sink2) ==
    IF cur # <<>> /\ cur2 = <<>>
    THEN Len(sink2) = Len(sink) + 1 /\ SubSeq(sink2, 1, Len(sink)) = sink
    ELSE sink2 = sink

SinkDiscipline ==
    /\ SinkStep(live.current_trade, live'.current_trade, live.trade_file, live'.trade_file)
    /\ SinkStep(bt.current_trade, bt'.current_trade, bt.trades_log, bt'.trades_log)

LiveClosed ==
    /\ live'.current_trade = <<>>
    /\ live'.trade_file =
           Append(live.trade_file,
                  ClosedAtTick(live.current_trade[1], live', live'.last_candle_ts))

BtSellCloses ==
    (BtTickSignal("SELL") /\ bt.current_trade # <<>>) =>
        /\ bt'.current_trade = <<>>
        /\ bt'.trades_log =
               Append(bt.trades_log,
                      ClosedAtTick(bt.current_trade[1], bt',
                                   live.candle_file[bt'.candle_count].timestamp))

CloseSurfaced ==
    [][(\/ (live.current_trade # <<>> /\ live'.current_trade = <<>>)
        \/ live'.trade_file # live.trade_file)
       => venue'.sells = venue.sells + 1]_vars

\* C10 as claimed: when the loop has halted on an interrupt that found a
\* position open at the venue, a close order has been sent since the
\* interrupt; and once interrupted, no bar is processed and no buy is placed.
ForcedClose ==
    [][/\ (loop'.state = "halted" /\ loop'.venue_at_interrupt.btc > 0)
              => venue'.sell_calls > loop'.venue_at_interrupt.sell_calls
       /\ loop.state # "running"
              => /\ live'.ltf_candles = live.ltf_candles
                 /\ live'.candle_count = live.candle_count
                 /\ venue'.buys = venue.buys]_vars

-----------------------------------------------------------------------------
(* C11: alignment gate of the live loop *)

\* a completed iteration of the loop that observed a new timestamp
NewBarStep ==
    /\ loop'.state = "running"
    /\ live'.last_candle_ts # live.last_candle_ts

\* the bar of a step was taken in: counted, stored, logged, put in the bucket
Accepted ==
    /\ live'.candle_count = live.candle_count + 1
    /\ Len(live'.ltf_candles) = Len(live.ltf_candles) + 1
    /\ Len(live'.candle_file) = Len(live.candle_file) + 1
    /\ Last(live'.candle_file).timestamp = live'.last_candle_ts
    /\ live'._htf_bucket = IF Len(live._htf_bucket) = 4 THEN <<>>
                           ELSE Append(live._htf_bucket, Last(live'.ltf_candles))

\* C11: while the gate is closed a new bar whose minute is not a multiple of
\* 5 changes nothing but the last-seen timestamp; the first bar on a multiple
\* of 5 opens the gate and is accepted; once open the gate stays open and
\* every new bar is accepted, whatever its minute.
AlignmentGate ==
    [][/\ live._alignment_complete => live'._alignment_complete
       /\ NewBarStep =>
             LET ts   == live'.last_candle_ts
                 open == live._alignment_complete \/ (ts % 60) % 5 = 0
             IN  /\ live'._alignment_complete = open
                 /\ open => Accepted
                 /\ ~open => /\ live' = [live EXCEPT !.last_candle_ts = ts]
                             /\ venue' = venue]_vars

\* the bar of minute 5 opened the gate and the bar of minute 6 followed it in
AlignmentGateWitness ==
    /\ loop.state = "running"
    /\ live._alignment_complete
    /\ Len(live.candle_file) = 2
    /\ live.candle_file[1].timestamp = 5
    /\ live.candle_file[2].timestamp = 6

-----------------------------------------------------------------------------
(* C12: HTF buckets and wall-clock windows *)

\* the log row of the first bar of the k-th synthesized HTF bar: buckets are
\* cut every 5 accepted bars, in the order of the log
FirstOfBucket(k) == live.candle_file[5 * (k - 1) + 1]

\* C12: every synthesized HTF bar (visible or pending) is built from five
\* bars the first of which has a timestamp minute that is a multiple of 5.
WindowAligned ==
    \A k \in 1..(Len(live.candle_file) \div 5) :
        (FirstOfBucket(k).timestamp % 60) % 5 = 0

-----------------------------------------------------------------------------
(* C13: duplicate filtering *)

\* the timestamp fed to the engine with its i-th bar: LiveStore writes the
\* log row of a bar as it appends the bar to the LTF history
FedTs(i) == live.candle_file[i].timestamp

\* every fed timestamp was fed once: one LTF bar per fed timestamp, the fed
\* timestamps strictly increasing, and between iterations the bucket holding
\* the bars fed since the last cut, each once
FedOnce ==
    /\ Len(live.ltf_candles) = Len(live.candle_file)
    /\ \A i \in 1..(Len(live.candle_file) - 1) : FedTs(i) < FedTs(i + 1)
    /\ loop.state = "running" =>
          LET n == Len(live.ltf_candles)
          IN  live._htf_bucket = SubSeq(live.ltf_candles, n - (n % 5) + 1, n)

\* C13: a polled bar whose timestamp equals the last observed one leaves the
\* trader, the venue and the replay unchanged, and whatever re-polls, fetch
\* failures and order failures occur no timestamp is fed to the engine twice.
DuplicateSkipped ==
    [][/\ loop'.polled = "duplicate" => live' = live /\ venue' = venue /\ bt' = bt
       /\ FedOnce']_vars

\* a re-poll of the bar just accepted, after an order of its iteration failed
DuplicateSkippedWitness ==
    /\ loop.polled = "duplicate"
    /\ live.candle_count = 6
    /\ Last(live.candle_file).timestamp = live.last_candle_ts
    /\ live.signal = "BUY"
    /\ live.current_trade = <<>>

-----------------------------------------------------------------------------
(* C14: a failed fetch *)

\* C14: an iteration whose fetch fails leaves every field of the trader and
\* the venue as they were and leaves the loop running; the loop stops
\* running only by the step of an external interrupt.
FetchFailurePreserves ==
    [][/\ loop'.polled = "failed" =>
             /\ live' = live
             /\ venue' = venue
             /\ loop'.state = "running"
       /\ (loop.state = "running" /\ loop'.state # "running") =>
             /\ loop'.state = "interrupted"
             /\ loop'.polled = "none"]_vars

\* a fetch failed with a position open, one visible HTF bar and a bucket
\* in progress
FetchFailureWitness ==
    /\ loop.polled = "failed"
    /\ loop.state = "running"
    /\ live.candle_count = 6
    /\ live.current_trade # <<>>
    /\ Len(live.htf_candles) = 1
    /\ Len(live._htf_bucket) = 1

-----------------------------------------------------------------------------
(* C15: minimum data threshold *)

\* a driver that has produced no decision and holds no position
Quiet(signal, current_trade) ==
    /\ signal \notin {"BUY", "SELL"}
    /\ current_trade = <<>>

\* C15: generate_signal answers HOLD to fewer than 2 LTF bars or an empty HTF
\* history, and before its 6th accepted bar neither driver has produced a
\* BUY or a SELL, opened a position, placed an order or logged a trade.
MinimumData ==
    /\ (sg.result # NoSignal
         /\ (Len(sg.ltf_candles) < 2 \/ Len(sg.htf_candles) < 1)) => sg.result = "HOLD"
    /\ live.candle_count < 6 =>
          /\ Quiet(live.signal, live.current_trade)
          /\ venue = VenueInit
          /\ live.trade_file = <<>>
    /\ bt.candle_count < 6 =>
          /\ Quiet(bt.signal, bt.current_trade)
          /\ bt.trades_log = <<>>

\* HOLD was answered to a pullback with no HTF bar, and both drivers stand
\* after 5 bars ending in a pullback, with the HTF bar still pending
MinimumDataWitness ==
    /\ sg.result = "HOLD"
    /\ sg.ltf_candles = <<Candle(3, 2), Candle(1, 2)>>
    /\ sg.htf_candles = <<>>
    /\ live.candle_count = 5
    /\ bt.candle_count = 5
    /\ is_red(live.ltf_candles[4]) /\ is_green(live.ltf_candles[5])
    /\ live._htf_pending = <<Candle(1, 2)>>
    /\ live.htf_candles = <<>>

-----------------------------------------------------------------------------
(* C16: signals that do not apply *)

\* a BUY met an open position, or a SELL a flat one
Idle(signal, current_trade) ==
    \/ signal = "BUY" /\ current_trade # <<>>
    \/ signal = "SELL" /\ current_trade = <<>>

\* C16: the order block of either driver, on a BUY while the position is
\* OPEN or a SELL while it is FLAT, leaves the position, the open-trade
\* record and the trade log as they were and places no order.
NoOpSignals ==
    [][/\ Idle(live.signal, live.current_trade) => live' = live /\ venue' = venue
       /\ Idle(bt.signal, bt.current_trade) => bt' = bt]_vars

\* the live block has run on a BUY with the position open and the replay
\* block on a SELL with the position flat
NoOpSignalsWitness ==
    /\ loop.polled = "new"
    /\ live.signal = "BUY" /\ live.current_trade = <<HeldTrade>>
    /\ bt.signal = "SELL" /\ bt.current_trade = <<>>

-----------------------------------------------------------------------------
(* C17: the candle log *)

\* the bar of a row of the candle log
BarOf(row) == Candle(row.open, row.close)

\* C17: between iterations of the live loop the bars of the candle log are
\* the LTF history, bar for bar in the same order; no timestamp is logged
\* twice and the first logged bar has a minute that is a multiple of 5.
SinkEqualsHistory ==
    loop.state = "running" =>
        /\ Len(live.candle_file) = Len(live.ltf_candles)
        /\ \A i \in 1..Len(live.candle_file) :
              BarOf(live.candle_file[i]) = live.ltf_candles[i]
        /\ \A i \in 1..(Len(live.candle_file) - 1) :
              live.candle_file[i].timestamp # live.candle_file[i + 1].timestamp
        /\ live.candle_file # <<>> =>
              (live.candle_file[1].timestamp % 60) % 5 = 0

\* three bars logged from minute 5 on, the last of them polled twice
SinkEqualsHistoryWitness ==
    /\ loop.state = "running"
    /\ loop.polled = "duplicate"
    /\ Len(live.candle_file) = 3
    /\ live.candle_file[1].timestamp = 5
    /\ live.ltf_candles = <<Candle(1, 2), Candle(3, 2), Candle(1, 2)>>

-----------------------------------------------------------------------------
(* C18: the pending marker *)

\* one tick of a driver, from (htf_candles, _htf_pending) before it to
\* (htf_candles2, _htf_pending2, _htf_available_next2) after it
MarkerStep(htf_candles, _htf_pending, htf_candles2, _htf_pending2, _htf_available_next2) ==
    /\ Len(_htf_pending2) <= 1
    /\ _htf_available_next2 <=> _htf_pending2 # <<>>
    /\ _htf_pending2 # <<>> => _htf_pending = <<>>
    /\ IF _htf_pending # <<>>
       THEN /\ htf_candles2 = Append(htf_candles, _htf_pending[1])
            /\ _htf_pending2 = <<>>
       ELSE htf_candles2 = htf_candles

\* C18: in both drivers at most one HTF bar is pending; a bar is set
\* pending only on a tick that began with the marker empty; the visible
\* history changes only by appending, on the next tick, the bar that was
\* pending, and the marker is empty after that tick.
PendingDiscipline ==
    [][/\ MarkerStep(live.htf_candles, live._htf_pending, live'.htf_candles,
                     live'._htf_pending, live'._htf_available_next)
       /\ MarkerStep(bt.htf_candles, bt._htf_pending, bt'.htf_candles,
                     bt'._htf_pending, bt'._htf_available_next)]_vars

\* both drivers after the tick that promoted their second HTF bar
PendingDisciplineWitness ==
    /\ live.candle_count = 11 /\ bt.candle_count = 11
    /\ Len(live.htf_candles) = 2 /\ Len(bt.htf_candles) = 2
    /\ live._htf_pending = <<>> /\ bt._htf_pending = <<>>

-----------------------------------------------------------------------------
(* C19: the size of the bucket *)

\* the bucket of a driver that has accepted the bars ltf_candles
BucketHolds(_htf_bucket, ltf_candles) ==
    /\ Len(_htf_bucket) = Len(ltf_candles) % 5
    /\ Len(_htf_bucket) \in 0..4

\* C19: between ticks the bucket of either driver holds (accepted bars mod
\* 5) bars, so 0 to 4, and none after the tick of every fifth bar.
BucketSize ==
    /\ Len(live.ltf_candles) = live.candle_count
    /\ Len(bt.ltf_candles) = bt.candle_count
    /\ BucketHolds(live._htf_bucket, live.ltf_candles)
    /\ BucketHolds(bt._htf_bucket, bt.ltf_candles)

\* both drivers after the tick of their tenth bar: the bucket reached 5 for
\* the second time and is empty, the bar built from it pending
BucketSizeWitness ==
    /\ live.candle_count = 10 /\ bt.candle_count = 10
    /\ live._htf_bucket = <<>> /\ bt._htf_bucket = <<>>
    /\ live._htf_pending # <<>> /\ bt._htf_pending # <<>>
    /\ Len(live.htf_candles) = 1

-----------------------------------------------------------------------------
(* C20: the window generate_signal reads *)

\* the last n elements of s
LastBars(s, n) == SubSeq(s, Len(s) - n + 1, Len(s))

\* C20: a call of generate_signal leaves both lists and the position flag
\* as they were, and on at least 2 LTF bars and 1 HTF bar its result is the
\* result on the last 2 LTF bars and the last HTF bar alone.
FixedWindow ==
    [][/\ sg'.ltf_candles = sg.ltf_candles
       /\ sg'.htf_candles = sg.htf_candles
       /\ sg'.position_open = sg.position_open
       /\ (Len(sg.ltf_candles) >= 2 /\ Len(sg.htf_candles) >= 1) =>
             sg'.result = generate_signal(LastBars(sg.ltf_candles, 2),
                                          LastBars(sg.htf_candles, 1),
                                          sg.position_open)]_vars

\* BUY on a pullback under a green HTF bar, with a green bar before the
\* pullback and a red HTF bar before the green one
FixedWindowWitness ==
    /\ sg.result = "BUY"
    /\ sg.ltf_candles = <<Candle(1, 2), Candle(2, 1), Candle(1, 2)>>
    /\ sg.htf_candles = <<Candle(2, 1), Candle(1, 2)>>

-----------------------------------------------------------------------------
(* C21: the counters *)

\* the number of HTF bars visible on tick n
VisibleAt(n) == (n - 1) \div 5

\* the counters of a driver against its histories
CountersTrack(candle_count, htf_count, ltf_candles, htf_candles) ==
    /\ candle_count = Len(ltf_candles)
    /\ htf_count = Len(htf_candles)
    /\ candle_count >= 1 => Len(htf_candles) = VisibleAt(candle_count)

\* the HTF numbers of the trades of a driver: its open trade, if any, and
\* its completed trades
HtfStamped(current_trade, log) ==
    /\ current_trade # <<>> =>
          current_trade[1].entry_htf = VisibleAt(current_trade[1].entry_candle)
    /\ \A i \in 1..Len(log) :
          /\ log[i].entry_htf = VisibleAt(log[i].entry_candle)
          /\ log[i].exit_htf = VisibleAt(log[i].exit_candle)

\* C21: between ticks, in both drivers, candle_count is the length of the
\* LTF history, htf_count the length of the visible HTF history, which has
\* floor((candle_count - 1) / 5) bars from the first tick on; entry_htf and
\* exit_htf of every trade are the number of HTF bars visible on its tick.
CountersTrackHistories ==
    /\ CountersTrack(live.candle_count, live.htf_count,
                     live.ltf_candles, live.htf_candles)
    /\ CountersTrack(bt.candle_count, bt.htf_count, bt.ltf_candles, bt.htf_candles)
    /\ HtfStamped(live.current_trade, live.trade_file)
    /\ HtfStamped(bt.current_trade, bt.trades_log)

\* both drivers after tick 11 with a trade entered under one visible HTF
\* bar and closed under two
CountersTrackWitness ==
    /\ live.candle_count = 11 /\ bt.candle_count = 11
    /\ live.htf_count = 2 /\ bt.htf_count = 2
    /\ live.trade_file # <<>> /\ bt.trades_log # <<>>
    /\ Last(live.trade_file).entry_htf = 1 /\ Last(live.trade_file).exit_htf = 2
    /\ Last(bt.trades_log).entry_htf = 1 /\ Last(bt.trades_log).exit_htf = 2

-----------------------------------------------------------------------------
(* C22: signals and position *)

-----------------------------------------------------------------------------
(* C23: the order of trade records *)

\* the completed trades of a driver whose LTF history is ltf_candles
WellOrdered(log, ltf_candles) ==
    /\ \A i \in 1..Len(log) :
          /\ log[i].entry_candle < log[i].exit_candle
          /\ 1 <= log[i].entry_htf
          /\ log[i].entry_htf <= log[i].exit_htf
          /\ log[i].entry_candle >= 6
          /\ log[i].exit_candle <= Len(ltf_candles)
          /\ is_green(ltf_candles[log[i].entry_candle])
          /\ is_red(ltf_candles[log[i].exit_candle])
    /\ \A i \in 1..(Len(log) - 1) :
          log[i + 1].entry_candle > log[i].exit_candle

\* C23: in both drivers every completed trade is entered on a bullish bar,
\* not before bar 6 and under at least one visible HTF bar, is closed on a
\* later, bearish bar under no fewer HTF bars, and is entered after the
\* trade logged before it was closed.
RecordsOrdered ==
    /\ WellOrdered(live.trade_file, live.ltf_candles)
    /\ WellOrdered(bt.trades_log, bt.ltf_candles)

\* both drivers have logged two trades, the second across the promotion of
\* the second HTF bar
RecordsOrderedWitness ==
    /\ Len(live.trade_file) = 2 /\ Len(bt.trades_log) = 2
    /\ live.trade_file[2].entry_htf = 1 /\ live.trade_file[2].exit_htf = 2
    /\ bt.trades_log[2].entry_htf = 1 /\ bt.trades_log[2].exit_htf = 2

-----------------------------------------------------------------------------
(* C24: one position at the venue *)

\* executed buy orders minus executed sell orders
NetBought == venue.buys - venue.sells

\* C24: while the live loop runs, the executed buys exceed the executed
\* sells by 0 or 1, and by 1 exactly when the tracker holds an open trade.
OnePosition ==
    loop.state = "running" =>
        /\ NetBought \in {0, 1}
        /\ NetBought = 1 <=> live.current_trade # <<>>

====
